---- MODULE Spec2Model ----
(***************************************************************************)
(* A model of extract_mda.py: extraction of the "Management Discussion &  *)
(* Analysis" section from the text of a Chinese annual report.            *)
(*                                                                         *)
(* A text is a sequence of characters.  A character is written as a short *)
(* ASCII token: the Chinese characters by their pinyin, the rest as       *)
(* themselves.  Offsets are Python offsets (the first character is at 0). *)
(*                                                                         *)
(*   "di" 第  "jie" 节  "zhang" 章  "mu" 目  "lu" 录                       *)
(*   "yi1" 一 "er2" 二 "san3" 三 "si4" 四 "wu5" 五 "liu6" 六 "qi7" 七      *)
(*   "ba8" 八 "jiu9" 九 "shi10" 十                                         *)
(*   "FWCOMMA" ， "FWCOLON" ： "DUN" 、 "ELLIPSIS" ⋯                       *)
(*   "zh" any other Chinese character, "x" any other character            *)
(***************************************************************************)
EXTENDS Integers, Sequences, FiniteSets, TLC

(* ----------------------------- characters ------------------------------ *)

\* \s of the regular expressions, and what str.strip() removes
Whitespace == {"\n", " ", "\t"}

\* \d
Digits == {"0", "1", "2", "3", "4", "5", "6", "7", "8", "9"}

\* [一二三四五六七八九十]
ChineseNumerals ==
  {"yi1", "er2", "san3", "si4", "wu5", "liu6", "qi7", "ba8", "jiu9", "shi10"}

\* [节|章]: a character class, so the bar is a member of it
SectionWords == {"jie", "|", "zhang"}

\* [,，:：、. \t]
Separators == {",", "FWCOMMA", ":", "FWCOLON", "DUN", ".", " ", "\t"}

\* the default catalog of MD&A titles, in the order of the alternation
DefaultKeywords ==
  << <<"dong", "shi", "hui", "bao", "gao">>,                              \* 董事会报告
     <<"dong", "shi", "hui", "bao", "gao", "yu", "guan", "li", "tao", "lun">>, \* 董事会报告与管理讨论
     <<"qi", "ye", "yun", "ying", "yu", "guan", "li", "ping", "shu">>,    \* 企业运营与管理评述
     <<"jing", "ying", "zong", "jie2", "yu", "fen", "xi">>,               \* 经营总结与分析
     <<"guan", "li", "ceng", "ping", "gu", "yu", "wei", "lai", "zhan", "wang">>, \* 管理层评估与未来展望
     <<"dong", "shi", "ju", "bao", "gao">>,                               \* 董事局报告
     <<"guan", "li", "ceng", "tao", "lun", "yu", "fen", "xi">>,           \* 管理层讨论与分析
     <<"jing", "ying", "qing", "kuang", "tao", "lun", "yu", "fen", "xi">>, \* 经营情况讨论与分析
     <<"jing", "ying", "ye", "ji", "fen", "xi">>,                         \* 经营业绩分析
     <<"ye", "wu", "hui2", "gu2", "yu", "zhan", "wang">>,                 \* 业务回顾与展望
     <<"gong", "si", "jing", "ying", "fen", "xi">>,                       \* 公司经营分析
     <<"guan", "li", "ceng", "ping", "lun", "yu", "fen", "xi">>,          \* 管理层评论与分析
     <<"zhi", "xing", "zhai", "yao", "yu", "ye", "wu", "hui2", "gu2">>,   \* 执行摘要与业务回顾
     <<"ye", "wu", "yun", "ying", "fen", "xi">> >>                        \* 业务运营分析

\* [一-龥]
CJK ==
  {"di", "jie", "zhang", "mu", "lu", "zh", "zhi4"} \cup ChineseNumerals
    \cup UNION {{DefaultKeywords[k][i] : i \in 1..Len(DefaultKeywords[k])} :
                  k \in 1..Len(DefaultKeywords)}

(* ------------------------- Python text operations ---------------------- *)

Min(S) == CHOOSE x \in S : \A y \in S : x <= y

Max(S) == CHOOSE x \in S : \A y \in S : x >= y

\* a local variable: F(v), with v evaluated once and F applied to its value
Let(v, F(_)) == CHOOSE r \in {F(x) : x \in {v}} : TRUE

\* an index of a slice: negative counts from the end, then clamped
SliceIndex(i, n) ==
  IF i < 0 THEN (IF n + i < 0 THEN 0 ELSE n + i)
           ELSE (IF i > n THEN n ELSE i)

\* s[a:b]
Slice(s, a, b) ==
  LET lo == SliceIndex(a, Len(s))
      hi == SliceIndex(b, Len(s))
  IN  IF lo >= hi THEN << >> ELSE SubSeq(s, lo + 1, hi)

\* s[a:]
SliceFrom(s, a) == Slice(s, a, Len(s))

\* the literal lit is in s at offset i
StartsAt(s, i, lit) ==
  /\ i >= 0
  /\ i + Len(lit) <= Len(s)
  /\ \A k \in 1..Len(lit) : s[i + k] = lit[k]

\* s.find(lit, p): the first offset >= p where lit is, or -1
Find(s, lit, p) ==
  Let({i \in p..(Len(s) - Len(lit)) : StartsAt(s, i, lit)}, LAMBDA hits :
    IF hits = {} THEN -1 ELSE Min(hits))

\* lit in s
Contains(s, lit) == Find(s, lit, 0) # -1

RECURSIVE SplitFrom(_, _, _)
SplitFrom(s, sep, p) ==
  Let(Find(s, sep, p), LAMBDA i :
    IF i = -1 THEN << SliceFrom(s, p) >>
    ELSE << Slice(s, p, i) >> \o SplitFrom(s, sep, i + Len(sep)))

\* s.split(sep): the pieces between the occurrences of sep, taken left to right
split(s, sep) == SplitFrom(s, sep, 0)

\* the number of characters of s from offset i on that are in Class
RECURSIVE RunLength(_, _, _)
RunLength(s, i, Class) ==
  IF i < Len(s) /\ s[i + 1] \in Class THEN 1 + RunLength(s, i + 1, Class) ELSE 0

\* the number of characters of s before offset i (going back) that are in Class
RECURSIVE RunLengthBack(_, _, _)
RunLengthBack(s, i, Class) ==
  IF i > 0 /\ s[i] \in Class THEN 1 + RunLengthBack(s, i - 1, Class) ELSE 0

\* s.rstrip()
rstrip(s) == Slice(s, 0, Len(s) - RunLengthBack(s, Len(s), Whitespace))

\* s.strip()
strip(s) ==
  LET lead == RunLength(s, 0, Whitespace)
  IN  IF lead = Len(s) THEN << >> ELSE rstrip(SliceFrom(s, lead))

(* ------------------------- regular expressions -------------------------- *)

\* A keyword pattern is an alternation of literal phrases, 'a|b|c', written as
\* the sequence of its alternatives; the empty pattern '' is << >>.

\* the length of the match of the alternation at offset i of s, or -1:
\* the alternatives are tried in order and the first that is there wins
AlternationMatch(s, i, alts) ==
  LET there == {k \in 1..Len(alts) : StartsAt(s, i, alts[k])}
  IN  IF there = {} THEN -1 ELSE Len(alts[Min(there)])

\* re.search(alts, s) succeeds
Search(alts, s) == \E k \in 1..Len(alts) : Contains(s, alts[k])

\* the offsets of the successive matches, scanning left to right, each scan
\* starting where the previous match ended; len maps the offsets where a
\* match can start to the length of the match there
RECURSIVE Scan(_, _)
Scan(len, p) ==
  Let({i \in DOMAIN len : i >= p}, LAMBDA ahead :
    IF ahead = {} THEN << >>
    ELSE Let(Min(ahead), LAMBDA i : << i >> \o Scan(len, i + len[i])))

\* [match.start() for match in re.finditer(alts, s)]
finditer(alts, s) ==
  Let({i \in 0..(Len(s) - 1) : AlternationMatch(s, i, alts) > 0}, LAMBDA at :
  Let([i \in at |-> AlternationMatch(s, i, alts)], LAMBDA len :
    Scan(len, 0)))

\* re.findall('[一二三四五六七八九十]+', w): the maximal runs of numerals
RECURSIVE NumeralRunsFrom(_, _)
NumeralRunsFrom(w, i) ==
  IF i >= Len(w) THEN << >>
  ELSE LET n == RunLength(w, i, ChineseNumerals)
       IN  IF n = 0 THEN NumeralRunsFrom(w, i + 1)
           ELSE << Slice(w, i, i + n) >> \o NumeralRunsFrom(w, i + n)

NumeralRuns(w) == NumeralRunsFrom(w, 0)

\* the length of the match of
\*   \n[第]*[一二三四五六七八九十]{1,}[节|章]*[,，:：、. \t]{1,5}keyword
\* at offset i of s, or -1
HeaderPrefixMatch(s, i, keyword) ==
  IF ~StartsAt(s, i, << "\n" >>) THEN -1
  ELSE LET b == i + 1 + RunLength(s, i + 1, {"di"})
           n == RunLength(s, b, ChineseNumerals)
           d == b + n + RunLength(s, b + n, SectionWords)
           k == RunLength(s, d, Separators)
           reps == {r \in 1..(IF k > 5 THEN 5 ELSE k) : StartsAt(s, d + r, keyword)}
       IN  IF n >= 1 /\ reps # {} THEN d + Max(reps) + Len(keyword) - i ELSE -1

\* mda_header_pattern is the prefix concatenated with 'a|b|c': the prefix
\* belongs to the first alternative only, the others are the bare phrases
HeaderPatternMatch(s, i, alts) ==
  IF HeaderPrefixMatch(s, i, alts[1]) > 0 THEN HeaderPrefixMatch(s, i, alts[1])
  ELSE AlternationMatch(s, i, SubSeq(alts, 2, Len(alts)))

\* re.findall(mda_header_pattern, s)
HeaderMatches(alts, s) ==
  Let({i \in 0..(Len(s) - 1) : HeaderPatternMatch(s, i, alts) > 0}, LAMBDA at :
  Let([i \in at |-> HeaderPatternMatch(s, i, alts)], LAMBDA len :
  Let(Scan(len, 0), LAMBDA starts :
    [k \in 1..Len(starts) |-> Slice(s, starts[k], starts[k] + len[starts[k]])])))

IsNotNewline(c) == c # "\n"

IsNotDigitOrDot(c) == c \notin Digits \cup {"."}

IsNotCJK(c) == c \notin CJK

\* re.sub(r'\d+|\. ⋯', '', s): the digits and the occurrences of '. ⋯' removed
MaskSub(s) ==
  Let({i \in 1..Len(s) :
         \/ s[i] \in Digits
         \/ \E j \in {i - 3, i - 2, i - 1} : StartsAt(s, j, << ".", " ", "ELLIPSIS" >>)},
      LAMBDA gone :
  Let(SelectSeq([i \in 1..Len(s) |-> << i, s[i] >>], LAMBDA e : e[1] \notin gone),
      LAMBDA kept :
    [k \in 1..Len(kept) |-> kept[k][2]]))

\* Counter(seq).most_common(1)[0][0]: the most frequent element, the one met
\* first among equally frequent ones
most_common(seq) ==
  LET Count(v) == Cardinality({i \in DOMAIN seq : seq[i] = v})
      best == {i \in DOMAIN seq : \A j \in DOMAIN seq : Count(seq[j]) <= Count(seq[i])}
  IN  seq[Min(best)]

(* ------------------------------ outcomes -------------------------------- *)

\* a call either returns a text or raises
Return(v) == [raised |-> FALSE, value |-> v]

Raise == [raised |-> TRUE, value |-> << >>]

(* ----------------------------- the program ------------------------------ *)

TocLength == 2000

DefaultTocEnd == 2500

ProximityWindow == 50

NumeralWindow == 10

\* \n目\s*录 matches at offset i of text
TocHeadingAt(text, i) ==
  /\ StartsAt(text, i, << "\n", "mu" >>)
  /\ StartsAt(text, i + 2 + RunLength(text, i + 2, Whitespace), << "lu" >>)

_get_toc_range(text) ==
  Let({i \in 0..(Len(text) - 1) : TocHeadingAt(text, i)}, LAMBDA found :
    IF found # {} THEN << Min(found), Min(found) + TocLength >>
    ELSE << 0, DefaultTocEnd >>)

_get_mda_keywords_pattern(keywords_pattern) ==
  IF keywords_pattern = << >> THEN DefaultKeywords ELSE keywords_pattern

\* the keys are strings of one character
char_to_int_map ==
  << "yi1" >> :> 1 @@ << "er2" >> :> 2 @@ << "san3" >> :> 3 @@ << "si4" >> :> 4 @@
  << "wu5" >> :> 5 @@ << "liu6" >> :> 6 @@ << "qi7" >> :> 7 @@ << "ba8" >> :> 8 @@
  << "jiu9" >> :> 9 @@ << "shi10" >> :> 10

int_to_char_map ==
  1 :> << "yi1" >> @@ 2 :> << "er2" >> @@ 3 :> << "san3" >> @@ 4 :> << "si4" >> @@
  5 :> << "wu5" >> @@ 6 :> << "liu6" >> @@ 7 :> << "qi7" >> @@ 8 :> << "ba8" >> @@
  9 :> << "jiu9" >> @@ 10 :> << "shi10" >> @@ 11 :> << "shi10", "yi1" >> @@
  12 :> << "shi10", "er2" >>

\* text[match.start() - 10:match.start() + 10]
NumeralWindowAt(text, m) == Slice(text, m - NumeralWindow, m + NumeralWindow)

\* the numeral runs met near the occurrences of the keywords, in order
RECURSIVE ExtendNumbers(_, _, _)
ExtendNumbers(text, starts, k) ==
  IF k > Len(starts) THEN << >>
  ELSE NumeralRuns(NumeralWindowAt(text, starts[k])) \o ExtendNumbers(text, starts, k + 1)

NumbersFound(mda_keywords_pattern, text) ==
  Let(finditer(mda_keywords_pattern, text), LAMBDA starts : ExtendNumbers(text, starts, 1))

\* the last match of the header pattern without its newlines; raises with no match
LastHeaderMatch(mda_keywords_pattern, text) ==
  Let(HeaderMatches(mda_keywords_pattern, text), LAMBDA found :
    IF found = << >> THEN Raise
    ELSE Return(SelectSeq(found[Len(found)], IsNotNewline)))

\* '\n' + int_to_char_map[char_to_int_map[numeral] + 1] + header_separator;
\* raises when the numeral is no key of char_to_int_map
NextSectionHeader(most_common_section_num_char, mda_header_full_match) ==
  LET header_separator == SelectSeq(mda_header_full_match, IsNotCJK)
  IN  IF most_common_section_num_char \notin DOMAIN char_to_int_map THEN Raise
      ELSE Return(<< "\n" >>
                  \o int_to_char_map[char_to_int_map[most_common_section_num_char] + 1]
                  \o header_separator)

\* s.split(sep)[-1]
LastPiece(s, sep) == Let(split(s, sep), LAMBDA pieces : pieces[Len(pieces)])

\* s.split(sep)[0]
FirstPiece(s, sep) == split(s, sep)[1]

\* mda_header_full_match + text.split(mda_header_full_match)[-1].split(next)[0]
KeywordSearchContent(text, mda_header_full_match, next_section_header_pattern) ==
  Let(LastPiece(text, mda_header_full_match), LAMBDA rest :
    mda_header_full_match \o FirstPiece(rest, next_section_header_pattern))

_extract_mda_via_keyword_search(text, keywords_pattern) ==
  Let(NumbersFound(_get_mda_keywords_pattern(keywords_pattern), text), LAMBDA numbers_found :
    IF numbers_found = << >> THEN Return(<< >>)
    ELSE
  Let(LastHeaderMatch(_get_mda_keywords_pattern(keywords_pattern), text), LAMBDA header :
    IF header.raised THEN Raise
    ELSE
  Let(NextSectionHeader(most_common(numbers_found), header.value), LAMBDA next :
    IF next.raised THEN Raise
    ELSE Return(KeywordSearchContent(text, header.value, next.value)))))

\* \n第[一二三四五六七八九十][节|章] matches at offset i of toc_text
SectionMarkerAt(toc_text, i) ==
  /\ StartsAt(toc_text, i, << "\n", "di" >>)
  /\ i + 4 <= Len(toc_text)
  /\ toc_text[i + 3] \in ChineseNumerals
  /\ toc_text[i + 4] \in SectionWords

RECURSIVE Ascending(_)
Ascending(S) == IF S = {} THEN << >> ELSE << Min(S) >> \o Ascending(S \ {Min(S)})

\* the offsets of the section markers of toc_text, in order
MarkerOffsets(toc_text) ==
  Let({i \in 0..(Len(toc_text) - 1) : SectionMarkerAt(toc_text, i)}, LAMBDA at :
    Ascending(at))

\* re.findall(marker, toc_text)
toc_section_markers(toc_text) ==
  Let(MarkerOffsets(toc_text), LAMBDA at :
    [k \in 1..Len(at) |-> Slice(toc_text, at[k], at[k] + 4)])

\* re.split(marker, toc_text)[1:], each piece without digits and dots, stripped
toc_section_titles(toc_text) ==
  Let(MarkerOffsets(toc_text), LAMBDA at :
    [k \in 1..Len(at) |->
       strip(SelectSeq(Slice(toc_text, at[k] + 4,
                             IF k < Len(at) THEN at[k + 1] ELSE Len(toc_text)),
                       IsNotDigitOrDot))])

\* toc_df[toc_df.title.str.contains(pattern)].index[0], counted from 1;
\* raises when no title contains the pattern
MdaTocIndex(titles, mda_keywords_pattern) ==
  Let({k \in 1..Len(titles) : Search(mda_keywords_pattern, titles[k])}, LAMBDA hits :
    IF hits = {} THEN Raise ELSE Return(Min(hits)))

\* re.sub(r'\d+|\. ⋯', '', marker.replace('\n', '') + title).rstrip()
TitleMask(marker, title) ==
  Let(MaskSub(SelectSeq(marker, IsNotNewline) \o title), LAMBDA cleaned : rstrip(cleaned))

\* part1, part2 = re.split(r'\s', mask): raises unless there are two pieces
TitleParts(mask) ==
  Let({i \in 0..(Len(mask) - 1) : mask[i + 1] \in Whitespace}, LAMBDA gaps :
    IF Cardinality(gaps) # 1 THEN Raise
    ELSE Return(<< Slice(mask, 0, Min(gaps)), SliceFrom(mask, Min(gaps) + 1) >>))

\* re.findall(part1, body[pos - 50:pos + 50]) is not empty
NearbyConfirmed(part1, body, pos) ==
  Let(Slice(body, pos - ProximityWindow, pos + ProximityWindow), LAMBDA window :
    Contains(window, part1))

\* a local variable that was never assigned
Unbound == -1

\* the offsets of part2 in body that have part1 nearby, in order
ConfirmedOffsets(parts, body) ==
  Let(finditer(<< parts[2] >>, body), LAMBDA potential :
    SelectSeq(potential, LAMBDA pos : NearbyConfirmed(parts[1], body, pos)))

\* the loop over potential_starts: the first confirmed offset
ConfirmedStart(parts, body) ==
  Let(ConfirmedOffsets(parts, body), LAMBDA ok :
    IF ok = << >> THEN Unbound ELSE ok[1])

\* a comparison that lets through an end at the start
EndAtOrAfterStart(end_pos, mda_start_index) == end_pos >= mda_start_index

\* end_pos > mda_start_index
EndAfterStart(end_pos, mda_start_index) == end_pos > mda_start_index

\* the loop over potential_ends: the first confirmed offset after the start;
\* the comparison with a start that is unbound raises
ConfirmedEnd(next_parts, body, mda_start_index) ==
  Let(ConfirmedOffsets(next_parts, body), LAMBDA ok :
    IF ok # << >> /\ mda_start_index = Unbound THEN Raise
    ELSE
  Let(SelectSeq(ok, LAMBDA end_pos : EndAfterStart(end_pos, mda_start_index)), LAMBDA after :
    IF after = << >> THEN Return(Unbound) ELSE Return(after[1])))

\* the offsets the try block slices the text after the table of contents
\* with; raises when a mask has not two parts or an offset stays unbound
ProximityOffsets(mda_title_mask, next_title_mask, body) ==
  Let(TitleParts(mda_title_mask), LAMBDA parts :
    IF parts.raised THEN Raise
    ELSE
  Let(ConfirmedStart(parts.value, body), LAMBDA mda_start_index :
  Let(TitleParts(next_title_mask), LAMBDA next_parts :
    IF next_parts.raised THEN Raise
    ELSE
  Let(ConfirmedEnd(next_parts.value, body, mda_start_index), LAMBDA mda_end_index :
    IF mda_end_index.raised THEN Raise
    ELSE IF mda_start_index = Unbound \/ mda_end_index.value = Unbound THEN Raise
    ELSE Return(<< mda_start_index, mda_end_index.value >>)))))

\* the try block: text[toc_end_index:][mda_start_index:mda_end_index]
ProximitySlice(mda_title_mask, next_title_mask, body) ==
  Let(ProximityOffsets(mda_title_mask, next_title_mask, body), LAMBDA offsets :
    IF offsets.raised THEN Raise
    ELSE Return(Slice(body, offsets.value[1], offsets.value[2])))

\* an except block that splits at the first occurrence of the MD&A header
NaiveSplitAtFirst(mda_title_mask, next_title_mask, body) ==
  Let(Find(body, mda_title_mask, 0), LAMBDA first :
  Let(mda_title_mask
        \o (IF first = -1 THEN body ELSE SliceFrom(body, first + Len(mda_title_mask))),
      LAMBDA raw_mda_text :
    Return(FirstPiece(raw_mda_text, next_title_mask))))

\* the except block
NaiveSplit(mda_title_mask, next_title_mask, body) ==
  Let(mda_title_mask \o LastPiece(body, mda_title_mask), LAMBDA raw_mda_text :
    Return(FirstPiece(raw_mda_text, next_title_mask)))

\* text.split(mda_header_full_match)[-1].split(next_section_header)[0]
NumeralFallbackContent(text, mda_header_full_match, next_section_header) ==
  Let(LastPiece(text, mda_header_full_match), LAMBDA rest :
    FirstPiece(rest, next_section_header))

\* an else branch that raises when no numeral is found near a keyword
NumeralFallbackRaising(text, mda_keywords_pattern) ==
  Let(NumbersFound(mda_keywords_pattern, text), LAMBDA numbers_found :
    IF numbers_found = << >> THEN Raise
    ELSE
  Let(LastHeaderMatch(mda_keywords_pattern, text), LAMBDA header :
    IF header.raised THEN Raise
    ELSE
  Let(NextSectionHeader(most_common(numbers_found), header.value), LAMBDA next :
    IF next.raised THEN Raise
    ELSE Return(NumeralFallbackContent(text, header.value, next.value)))))

\* the else branch
NumeralFallback(text, mda_keywords_pattern) ==
  Let(NumbersFound(mda_keywords_pattern, text), LAMBDA numbers_found :
    IF numbers_found = << >> THEN Return(<< >>)
    ELSE
  Let(LastHeaderMatch(mda_keywords_pattern, text), LAMBDA header :
    IF header.raised THEN Raise
    ELSE
  Let(NextSectionHeader(most_common(numbers_found), header.value), LAMBDA next :
    IF next.raised THEN Raise
    ELSE Return(NumeralFallbackContent(text, header.value, next.value)))))

\* the masks of the MD&A section and of the next one, and the slice between
MaskExtraction(markers, titles, i, body) ==
  Let(TitleMask(markers[i], titles[i]), LAMBDA mda_title_mask :
  Let(TitleMask(markers[i + 1], titles[i + 1]), LAMBDA next_title_mask :
  Let(ProximitySlice(mda_title_mask, next_title_mask, body), LAMBDA slice :
    IF ~slice.raised THEN slice
    ELSE NaiveSplit(mda_title_mask, next_title_mask, body))))

\* an if branch that, with no next section, takes the text up to the end
TitleExtractionUnbounded(markers, titles, mda_keywords_pattern, body) ==
  Let(MdaTocIndex(titles, mda_keywords_pattern), LAMBDA mda_toc_index :
    IF mda_toc_index.raised THEN Raise
    ELSE IF mda_toc_index.value + 1 > Len(markers)
    THEN Return(LastPiece(body, TitleMask(markers[mda_toc_index.value],
                                          titles[mda_toc_index.value])))
    ELSE MaskExtraction(markers, titles, mda_toc_index.value, body))

\* the if branch; raises when no title contains the pattern or the MD&A
\* section is the last one
TitleExtraction(markers, titles, mda_keywords_pattern, body) ==
  Let(MdaTocIndex(titles, mda_keywords_pattern), LAMBDA mda_toc_index :
    IF mda_toc_index.raised THEN Raise
    ELSE IF mda_toc_index.value + 1 > Len(markers) THEN Raise
    ELSE MaskExtraction(markers, titles, mda_toc_index.value, body))

\* text[toc_start_index:toc_end_index]
TocText(text) ==
  Let(_get_toc_range(text), LAMBDA range : Slice(text, range[1], range[2]))

\* text[toc_end_index:]
AfterToc(text) ==
  Let(_get_toc_range(text), LAMBDA range : SliceFrom(text, range[2]))

_extract_mda_via_toc(text, keywords_pattern) ==
  Let(TocText(text), LAMBDA toc_text :
  Let(toc_section_titles(toc_text), LAMBDA titles :
  Let(toc_section_markers(toc_text), LAMBDA markers :
    IF titles # << >> /\ markers # << >>
    THEN Let(AfterToc(text), LAMBDA body :
           TitleExtraction(markers, titles,
                           _get_mda_keywords_pattern(keywords_pattern), body))
    ELSE NumeralFallback(text, _get_mda_keywords_pattern(keywords_pattern)))))

(* ---------------------------- the documents ----------------------------- *)

\* the longest run of filler before the first line of a short document
MaxPrefix == 2

\* the most references to the MD&A section before its header in a short document
MaxRefs == 2

\* the most headers in the body of a report with a table of contents
MaxHeaders == 3

Fill(n) == [i \in 1..n |-> "x"]

RECURSIVE Cat(_)
Cat(pieces) == IF pieces = << >> THEN << >> ELSE Head(pieces) \o Cat(Tail(pieces))

\* the sequences over S of length at most n
RECURSIVE UpTo(_, _)
UpTo(S, n) ==
  IF n = 0 THEN {<< >>}
  ELSE UpTo(S, n - 1) \cup {Append(q, e) : q \in {r \in UpTo(S, n - 1) : Len(r) = n - 1}, e \in S}

\* the keywords the documents use: the first of the catalog and a later one
Keyword(k) == DefaultKeywords[k]

KeywordChoices == {1, 7}

Governance == << "gong", "si", "zhi4", "li" >>  \* 公司治理

Company == << "gong", "si" >>                   \* 公司

Other == << "zh", "zh" >>

Marker(n) == << "\n", "di", n, "jie" >>

\* the dots and the page number that end a line of a table of contents
PageRef == << ".", ".", "1", "2" >>

\* A report with a table of contents.  In the style "spaced" a line is the
\* marker, a space and the title; in the style "glued" the marker is followed
\* at once by a title of two words.
MdaTitle(style, k) ==
  IF style = "spaced" THEN Keyword(k) ELSE Keyword(k) \o << " " >> \o Other

NextTitle(style) ==
  IF style = "spaced" THEN Governance ELSE Company \o << " " >> \o Other

Line(style, n, title) ==
  Marker(n) \o (IF style = "spaced" THEN << " " >> ELSE << >>) \o title

MdaLine(style, k) == Line(style, "san3", MdaTitle(style, k))

NextLine(style) == Line(style, "si4", NextTitle(style))

\* the lines of the table of contents: all sections, the MD&A section last,
\* no MD&A section, no line at all
TocLines(toc, style, k) ==
  CASE toc = "full"   -> MdaLine(style, k) \o PageRef \o NextLine(style) \o PageRef
                         \o Line(style, "wu5", Other) \o PageRef
    [] toc = "last"   -> Line(style, "er2", Governance) \o PageRef
                         \o MdaLine(style, k) \o PageRef
    [] toc = "absent" -> NextLine(style) \o PageRef \o Line(style, "wu5", Other) \o PageRef
    [] toc = "none"   -> << >>

\* what a body is made of: the two headers as the table of contents has them
\* ("M", "N"), the two headers with the marker glued to the title ("m", "n"),
\* the second word of the titles alone ("o"), a long run of filler ("f")
BodyItem(style, k, item) ==
  CASE item = "M" -> MdaLine(style, k)
    [] item = "N" -> NextLine(style)
    [] item = "m" -> Marker("san3") \o MdaTitle(style, k)
    [] item = "n" -> Marker("si4") \o NextTitle(style)
    [] item = "o" -> << "\n" >> \o Other
    [] item = "f" -> << "\n" >> \o Fill(ProximityWindow)

BodyItems(style) == IF style = "spaced" THEN {"M", "N", "m", "n"} ELSE {"M", "N", "o", "f"}

Body(style, k, items) ==
  Cat([i \in 1..Len(items) |-> BodyItem(style, k, items[i]) \o << "\n" >> \o Fill(2)])

Report(toc, style, k, items) ==
  Fill(2) \o << "\n", "mu", "lu" >> \o TocLines(toc, style, k) \o << "\n" >>
    \o Fill(TocLength) \o Body(style, k, items)

TocStyles == {"spaced", "glued"}

\* the reports whose table of contents lists the MD&A section and the next
\* ones, with every body; the other tables of contents with the short bodies
Reports ==
  UNION {{Report("full", style, 7, items) : items \in UpTo(BodyItems(style), MaxHeaders)} :
           style \in TocStyles}
  \cup UNION {{Report(toc, style, k, items) :
                 toc \in {"last", "absent", "none"}, k \in KeywordChoices,
                 items \in UpTo(BodyItems(style), 1)} :
                style \in TocStyles}

\* A short document without a table of contents: references to the section
\* ("三 keyword"), its header line ("\n第三节、keyword" or "\n三、keyword"), some
\* text and the header line of the next section ("\n四、").
SectionNumerals == {<< "san3" >>, << "shi10", "yi1" >>}

Reference(num, k) == Fill(NumeralWindow + 2) \o num \o << " " >> \o Keyword(k)

HeaderLine(form, num, k) ==
  << "\n" >> \o (IF form = "full" THEN << "di" >> \o num \o << "jie" >> ELSE num)
    \o << "DUN" >> \o Keyword(k)

NextHeaderLine == << "\n", "si4", "DUN" >>

ShortDocument(prefix, refs, form, num, k, next) ==
  Fill(prefix) \o Cat([i \in 1..refs |-> Reference(num, k)]) \o HeaderLine(form, num, k)
    \o << "\n" >> \o Fill(2 * NumeralWindow)
    \o (IF next THEN NextHeaderLine \o Fill(2) ELSE << >>)

ShortDocuments ==
  {ShortDocument(prefix, refs, form, num, k, next) :
     prefix \in 0..MaxPrefix, refs \in 0..MaxRefs, form \in {"full", "bare"},
     num \in SectionNumerals, k \in KeywordChoices, next \in BOOLEAN}

\* the custom patterns: none, and a pattern of one phrase
Patterns == {<< >>, << Keyword(7) >>}

Inputs == (ShortDocuments \X Patterns) \cup (Reports \X {<< >>})

(* ------------------------------ extract_mda ----------------------------- *)

VARIABLES
  text,              \* the argument text
  keywords_pattern,  \* the argument keywords_pattern
  pc,                \* where extract_mda is
  outcomes,          \* the outcomes of the calls of the two extractors, in order
  mda_content,       \* the local variable
  returned           \* what extract_mda returned

vars == << text, keywords_pattern, pc, outcomes, mda_content, returned >>

Init ==
  /\ \E input \in Inputs : text = input[1] /\ keywords_pattern = input[2]
  /\ pc = "try"
  /\ outcomes = << >>
  /\ mda_content = << >>
  /\ returned = << >>

\* the assignment of a call's outcome to mda_content, or the jump to the handler
Assign(outcome, handler) ==
  /\ outcomes' = Append(outcomes, outcome)
  /\ IF outcome.raised
     THEN pc' = handler /\ UNCHANGED mda_content
     ELSE pc' = "return" /\ mda_content' = outcome.value

\* try: mda_content = _extract_mda_via_toc(text, keywords_pattern)
TryToc ==
  /\ pc = "try"
  /\ Assign(_extract_mda_via_toc(text, keywords_pattern), "except")
  /\ UNCHANGED << text, keywords_pattern, returned >>

\* except Exception: try: mda_content = _extract_mda_via_keyword_search(...)
TryKeywordSearch ==
  /\ pc = "except"
  /\ Assign(_extract_mda_via_keyword_search(text, keywords_pattern), "except_again")
  /\ UNCHANGED << text, keywords_pattern, returned >>

\* a handler that lets the exception of the second extractor through
GiveUpReraising ==
  /\ pc = "except_again"
  /\ pc' = "raised"
  /\ UNCHANGED << text, keywords_pattern, outcomes, mda_content, returned >>

\* except Exception: mda_content = ''
GiveUp ==
  /\ pc = "except_again"
  /\ mda_content' = << >>
  /\ pc' = "return"
  /\ UNCHANGED << text, keywords_pattern, outcomes, returned >>

\* return mda_content
ReturnContent ==
  /\ pc = "return"
  /\ returned' = mda_content
  /\ pc' = "done"
  /\ UNCHANGED << text, keywords_pattern, outcomes, mda_content >>

Next == TryToc \/ TryKeywordSearch \/ GiveUp \/ ReturnContent

Spec == Init /\ [][Next]_vars

(* ------------------------------- the claims ----------------------------- *)

Pattern == _get_mda_keywords_pattern(keywords_pattern)

TocCalled == Len(outcomes) >= 1

KeywordSearchCalled == Len(outcomes) >= 2

\* the outcome of _extract_mda_via_toc, once called
Primary == outcomes[1]

\* the outcome of _extract_mda_via_keyword_search, once called
Secondary == outcomes[2]

\* what _extract_mda_via_toc reads in the table of contents of the text
Toc ==
  Let(TocText(text), LAMBDA toc_text :
  Let(toc_section_titles(toc_text), LAMBDA titles :
  Let(toc_section_markers(toc_text), LAMBDA markers :
  Let(AfterToc(text), LAMBDA body :
  Let(MdaTocIndex(titles, Pattern), LAMBDA index :
    [titles |-> titles, markers |-> markers, body |-> body, index |-> index])))))

\* the table of contents gave markers and titles
TocParsed(t) == t.titles # << >> /\ t.markers # << >>

\* no title of the table of contents contains the pattern
NoTitleMatches(t) == TocParsed(t) /\ t.index.raised

\* the MD&A section is the last one of the table of contents
MdaIsLast(t) == TocParsed(t) /\ ~t.index.raised /\ t.index.value = Len(t.titles)

\* the table of contents has the MD&A section and the one after it
HasBothEntries(t) == TocParsed(t) /\ ~t.index.raised /\ t.index.value < Len(t.titles)

Range(seq) == {seq[k] : k \in DOMAIN seq}

\* the masks of the two sections, the outcome of the proximity sub-strategy
\* on them, and the offsets of the second part of each mask that have its
\* first part nearby (none when the mask has not two parts)
Masks(t) ==
  Let(TitleMask(t.markers[t.index.value], t.titles[t.index.value]), LAMBDA mda :
  Let(TitleMask(t.markers[t.index.value + 1], t.titles[t.index.value + 1]), LAMBDA next :
  Let(TitleParts(mda), LAMBDA parts :
  Let(TitleParts(next), LAMBDA next_parts :
    [mda |-> mda, next |-> next,
     two_parts |-> ~parts.raised /\ ~next_parts.raised,
     proximity |-> ProximityOffsets(mda, next, t.body),
     starts |-> IF parts.raised THEN {}
                ELSE Range(ConfirmedOffsets(parts.value, t.body)),
     ends |-> IF next_parts.raised THEN {}
              ELSE Range(ConfirmedOffsets(next_parts.value, t.body))]))))

\* s up to the first occurrence of sep, all of s without one
Before(s, sep) == IF Find(s, sep, 0) = -1 THEN s ELSE Slice(s, 0, Find(s, sep, 0))

(* C1: extract_mda never raises: whatever the two extractors do, the call    *)
(* ends returning a text; when both raise it returns the empty text, and so  *)
(* it does when the keyword is found nowhere in the text.                     *)
C1_NeverRaises ==
  /\ pc \in {"try", "except", "except_again", "return", "done"}
  /\ (pc = "done" /\ KeywordSearchCalled /\ Primary.raised /\ Secondary.raised)
       => returned = << >>
  /\ (pc = "done" /\ finditer(Pattern, text) = << >>) => returned = << >>

\* both extractors raised and the empty text was returned
C1_Witness ==
  /\ pc = "done" /\ KeywordSearchCalled
  /\ Primary.raised /\ Secondary.raised /\ returned = << >>

(* C6: when the first title of the table of contents that contains the      *)
(* pattern is the last entry, _extract_mda_via_toc raises, and extract_mda   *)
(* returns what _extract_mda_via_keyword_search yields for the same text,    *)
(* the empty text when that raises too.                                      *)
C6_LastEntryFallsBack ==
  TocCalled =>
    Let(Toc, LAMBDA t :
      MdaIsLast(t) =>
        /\ Primary.raised
        /\ KeywordSearchCalled =>
             Secondary = _extract_mda_via_keyword_search(text, keywords_pattern)
        /\ pc = "done" =>
             /\ KeywordSearchCalled
             /\ returned = IF Secondary.raised THEN << >> ELSE Secondary.value)

\* the MD&A section was last and the keyword search gave the returned text
C6_Witness ==
  /\ pc = "done" /\ MdaIsLast(Toc) /\ Primary.raised
  /\ ~Secondary.raised /\ returned = Secondary.value /\ returned # << >>

(* C10: a slice the proximity sub-strategy returns ends after its start: it *)
(* starts at the first confirmed start and ends at the first confirmed end   *)
(* after it, candidates at or before the start being skipped; with no        *)
(* confirmed start, or no confirmed end after it, nothing is sliced and the  *)
(* naive fallback gives the outcome.                                         *)
C10_EndAfterStart ==
  TocCalled =>
    Let(Toc, LAMBDA t :
      HasBothEntries(t) =>
        Let(Masks(t), LAMBDA m :
          /\ ~m.proximity.raised =>
               /\ m.two_parts
               /\ m.proximity.value[1] = Min(m.starts)
               /\ m.proximity.value[2] = Min({e \in m.ends : e > m.proximity.value[1]})
               /\ m.proximity.value[2] > m.proximity.value[1]
               /\ Primary = Return(Slice(t.body, m.proximity.value[1], m.proximity.value[2]))
               /\ Primary.value # << >>
          /\ (m.two_parts /\ (m.starts = {} \/ \A e \in m.ends : e <= Min(m.starts))) =>
               /\ m.proximity.raised
               /\ Primary = NaiveSplit(m.mda, m.next, t.body)))

\* a confirmed end at the confirmed start was skipped and a later one taken
C10_Witness ==
  /\ pc = "done" /\ HasBothEntries(Toc) /\ ~Masks(Toc).proximity.raised
  /\ Masks(Toc).proximity.value[1] \in Masks(Toc).ends
  /\ returned = Slice(Toc.body, Masks(Toc).proximity.value[1], Masks(Toc).proximity.value[2])

\* the proximity sub-strategy has no confirmed offsets to slice with
NoConfirmedOffsets(t) == HasBothEntries(t) /\ Masks(t).proximity.raised

\* the table of contents is unparsable and no numeral is near a keyword
NothingToGoOn(t) == ~TocParsed(t) /\ NumbersFound(Pattern, text) = << >>

(* C2 as stated: whenever _extract_mda_via_toc has a missing match (no      *)
(* title contains the pattern, no confirmed offsets in the text after the    *)
(* table of contents, or an unparsable table of contents with no numeral     *)
(* near a keyword) it raises.                                                *)
C2_MissingMatchRaises ==
  TocCalled =>
    Let(Toc, LAMBDA t :
      (NoTitleMatches(t) \/ NoConfirmedOffsets(t) \/ NothingToGoOn(t)) => Primary.raised)

(* C2 amended: when no title contains the pattern _extract_mda_via_toc      *)
(* raises and extract_mda runs _extract_mda_via_keyword_search on the same   *)
(* text; with no confirmed offsets it does not raise but returns the result  *)
(* of the naive split; with an unparsable table of contents and no numeral   *)
(* near a keyword it returns the empty text, which extract_mda returns       *)
(* without running the keyword search.                                       *)
C2_MissingMatchOutcomes ==
  TocCalled =>
    Let(Toc, LAMBDA t :
      /\ NoTitleMatches(t) =>
           /\ Primary.raised
           /\ pc = "done" => KeywordSearchCalled
           /\ KeywordSearchCalled =>
                Secondary = _extract_mda_via_keyword_search(text, keywords_pattern)
      /\ NoConfirmedOffsets(t) =>
           Primary = NaiveSplit(Masks(t).mda, Masks(t).next, t.body)
      /\ NothingToGoOn(t) =>
           /\ Primary = Return(<< >>)
           /\ pc # "except" /\ ~KeywordSearchCalled
           /\ pc = "done" => returned = << >>)

\* an unparsable table of contents and no numeral: the empty text came back
\* from _extract_mda_via_toc and the keyword search never ran
C2_Witness ==
  /\ pc = "done" /\ NothingToGoOn(Toc)
  /\ Primary = Return(<< >>) /\ ~KeywordSearchCalled /\ returned = << >>

\* the text after the first occurrence of lit in s
AfterFirst(s, lit) == SliceFrom(s, Find(s, lit, 0) + Len(lit))

\* the text after the last occurrence of lit in s, all of s without one
AfterLast(s, lit) ==
  Let(finditer(<< lit >>, s), LAMBDA at :
    IF at = << >> THEN s ELSE SliceFrom(s, at[Len(at)] + Len(lit)))

(* C7 as stated: when the proximity sub-strategy raises, the naive fallback *)
(* returns the text after the first occurrence of the MD&A header in the     *)
(* text after the table of contents (the header itself counted in or not),   *)
(* cut at the first occurrence of the next header.                           *)
C7_NaiveFirstOccurrence ==
  TocCalled =>
    Let(Toc, LAMBDA t :
      HasBothEntries(t) =>
        Let(Masks(t), LAMBDA m :
          (m.proximity.raised /\ Contains(t.body, m.mda)) =>
            /\ ~Primary.raised
            /\ Primary.value \in {Before(AfterFirst(t.body, m.mda), m.next),
                                  Before(m.mda \o AfterFirst(t.body, m.mda), m.next)}))

(* C7 amended: when the proximity sub-strategy raises, the naive fallback   *)
(* returns the MD&A header followed by the text after its last occurrence    *)
(* in the text after the table of contents (by all of that text when it      *)
(* does not occur), cut at the first occurrence of the next header.          *)
C7_NaiveLastOccurrence ==
  TocCalled =>
    Let(Toc, LAMBDA t :
      HasBothEntries(t) =>
        Let(Masks(t), LAMBDA m :
          m.proximity.raised =>
            Primary = Return(Before(m.mda \o AfterLast(t.body, m.mda), m.next))))

\* the naive fallback ran on a text with two occurrences of the MD&A header
\* and something between them
C7_Witness ==
  /\ pc = "done" /\ HasBothEntries(Toc) /\ Masks(Toc).proximity.raised
  /\ Len(finditer(<< Masks(Toc).mda >>, Toc.body)) >= 2
  /\ returned = Before(Masks(Toc).mda \o AfterLast(Toc.body, Masks(Toc).mda), Masks(Toc).next)
  /\ returned # Before(Masks(Toc).mda \o AfterFirst(Toc.body, Masks(Toc).mda), Masks(Toc).next)

(* C3: the text extract_mda returns is empty or a contiguous part of the    *)
(* input text.                                                               *)
C3_ReturnsSubstring ==
  pc = "done" => (returned = << >> \/ Contains(text, returned))

\* the report whose table of contents lists "marker space title" and whose
\* body has the two headers written the same way, some text after each
WellFormedReport == Report("full", "spaced", 7, << "M", "N" >>)

\* the text between the two headers of the body of WellFormedReport
BetweenHeaders == << "\n" >> \o Fill(2)

(* C4: on a report whose table of contents lists "marker space title" and   *)
(* whose body has the same headers, _extract_mda_via_toc returns the text    *)
(* between the MD&A header and the next header (with the MD&A header or      *)
(* without it), nothing of the next header and nothing after it.             *)
C4_BetweenHeaders ==
  (TocCalled /\ text = WellFormedReport) =>
    /\ ~Primary.raised
    /\ \E head \in {<< >>, Keyword(7), Tail(MdaLine("spaced", 7)), MdaLine("spaced", 7)},
          end \in {<< >>, << "\n" >>} :
         Primary.value = head \o BetweenHeaders \o end

\* "\n" + int_to_char_map[char_to_int_map[numeral] + 1] + separator
SuccessorHeader(numeral, separator) ==
  << "\n" >> \o int_to_char_map[char_to_int_map[numeral] + 1] \o separator

(* C5: with the built-in catalog, on a text where the numeral met most near *)
(* the keywords is 三, that has a header line "\n第三节、keyword" or          *)
(* "\n三、keyword" and later "\n四、", _extract_mda_via_keyword_search        *)
(* returns the text from the start of the header up to "\n四、", whichever   *)
(* keyword of the catalog the header has.                                    *)
C5_FullHeaderSelected ==
  (KeywordSearchCalled /\ keywords_pattern = << >>) =>
    \A form \in {"full", "bare"}, k \in DOMAIN DefaultKeywords :
      Let(Find(text, HeaderLine(form, << "san3" >>, k), 0), LAMBDA header :
        header # -1 =>
          Let(Find(text, SuccessorHeader(<< "san3" >>, << "DUN" >>), header), LAMBDA next :
          Let(NumbersFound(DefaultKeywords, text), LAMBDA numbers_found :
            (next # -1 /\ numbers_found # << >>
             /\ most_common(numbers_found) = << "san3" >>) =>
              Secondary = Return(Slice(text, header + 1, next)))))

(* C8: when the table of contents gives no markers or no titles,            *)
(* _extract_mda_via_toc has the outcome _extract_mda_via_keyword_search has  *)
(* on the same text and pattern.                                             *)
C8_SameAsKeywordSearch ==
  TocCalled =>
    Let(Toc, LAMBDA t :
      ~TocParsed(t) => Primary = _extract_mda_via_keyword_search(text, keywords_pattern))

(* C9: the numeral runs collected for an occurrence of the pattern at       *)
(* offset m are the runs in the 10 characters before m, fewer when m < 10,   *)
(* and the 10 characters from m on.                                          *)
C9_WindowClampedAtStart ==
  TocCalled =>
    Let(finditer(Pattern, text), LAMBDA starts :
      \A k \in DOMAIN starts :
        NumeralRuns(NumeralWindowAt(text, starts[k]))
          = NumeralRuns(Slice(text, Max({starts[k] - NumeralWindow, 0}),
                              starts[k] + NumeralWindow)))

====
